---- MODULE Spec2Model ----
(***************************************************************************)
(* Model of scripts/validate-broker-toml.py: the broker-definition         *)
(* validator (loader, rule registry, section validators, orchestrator)     *)
(* and the batch runner main().                                            *)
(*                                                                         *)
(* Python objects produced by tomllib are tagged values; the tag t says    *)
(* which field holds the object (the other fields are empty):              *)
(*   "str"   str  = the sequence of its characters                         *)
(*   "int"   int  = the integer                                            *)
(*   "list"  list = the sequence of its elements                           *)
(*   "dict"  dict = a function from key to value (DOMAIN = the keys)       *)
(* A call that can raise returns [raised, errors]: `errors` is the list    *)
(* the function had built when it returned or raised.                      *)
(***************************************************************************)
EXTENDS Integers, Sequences, FiniteSets, TLC

VARIABLES argv, i, all_valid, out, pc, exitCode

vars == <<argv, i, all_valid, out, pc, exitCode>>

----
\* Bounds of the checked input space.

\* longest argument list
MaxArgs == 3
\* longest removal.method array
MaxMethods == 2
\* longest jurisdictions array
MaxJur == 2

----
\* Python values.

Value(t, s, n, l, d) ==
  [t |-> t, str |-> s, int |-> n, list |-> l, dict |-> d]

StrV(s) == Value("str", s, 0, <<>>, <<>>)
IntV(n) == Value("int", <<>>, n, <<>>, <<>>)
ListV(l) == Value("list", <<>>, 0, l, <<>>)
DictV(d) == Value("dict", <<>>, 0, <<>>, d)

IsStr(x) == x.t = "str"
IsList(x) == x.t = "list"
IsDict(x) == x.t = "dict"

\* The characters of the key literals the code uses ("id" in broker, ...).
KeyChars ==
  [ broker |-> <<"b", "r", "o", "k", "e", "r">>, removal |-> <<"r", "e", "m", "o", "v", "a", "l">>,
    jurisdictions |-> <<"j", "u", "r", "i", "s", "d", "i", "c", "t", "i", "o", "n", "s">>,
    id |-> <<"i", "d">>, name |-> <<"n", "a", "m", "e">>, domain |-> <<"d", "o", "m", "a", "i", "n">>,
    category |-> <<"c", "a", "t", "e", "g", "o", "r", "y">>, method |-> <<"m", "e", "t", "h", "o", "d">>, url |-> <<"u", "r", "l">>,
    law |-> <<"l", "a", "w">>, meta |-> <<"m", "e", "t", "a">>, notes |-> <<"n", "o", "t", "e", "s">> ]

\* s occurs in h as a contiguous run (Python `s in h` on two strings).
IsSubstring(s, h) ==
  \E k \in 0..(Len(h) - Len(s)) : SubSeq(h, k + 1, k + Len(s)) = s

\* h.startswith(p)
StartsWith(h, p) == Len(h) >= Len(p) /\ SubSeq(h, 1, Len(p)) = p

\* bool(x): empty strings, lists and dicts and the integer 0 are falsy.
Truthy(x) ==
  CASE x.t = "int" -> x.int # 0
    [] x.t = "dict" -> DOMAIN x.dict # {}
    [] x.t = "list" -> Len(x.list) > 0
    [] x.t = "str" -> Len(x.str) > 0
    [] OTHER -> FALSE

\* hash(x) succeeds: lists and dicts are unhashable.
Hashable(x) == x.t \in {"str", "int"}

\* `key in c` for a key literal: "yes", "no", or "raise" (TypeError: an int
\* is not iterable).  A dict is searched by key, a string for the substring,
\* a list for an equal element.
Contains(c, key) ==
  CASE c.t = "dict" -> IF key \in DOMAIN c.dict THEN "yes" ELSE "no"
    [] c.t = "str" -> IF IsSubstring(KeyChars[key], c.str) THEN "yes" ELSE "no"
    [] c.t = "list" ->
         IF \E k \in 1..Len(c.list) : c.list[k] = StrV(KeyChars[key])
         THEN "yes" ELSE "no"
    [] OTHER -> "raise"

\* `x in S` for a set S of strings: unhashable x raises, a non-string is
\* simply not a member.
InSet(x, S) ==
  IF ~Hashable(x) THEN "raise"
  ELSE IF IsStr(x) /\ x.str \in S THEN "yes" ELSE "no"

----
\* Characters (str.isalnum, str.lower, str.replace).

LowerLetters ==
  <<"a", "b", "c", "d", "e", "f", "g", "h", "i", "j", "k", "l", "m", "n", "o", "p", "q", "r", "s", "t", "u", "v", "w", "x", "y", "z">>
UpperLetters ==
  <<"A", "B", "C", "D", "E", "F", "G", "H", "I", "J", "K", "L", "M", "N", "O", "P", "Q", "R", "S", "T", "U", "V", "W", "X", "Y", "Z">>
Digits == <<"0", "1", "2", "3", "4", "5", "6", "7", "8", "9">>

Range(s) == {s[k] : k \in 1..Len(s)}

\* One non-ASCII character: U+1D400 MATHEMATICAL BOLD CAPITAL A, category
\* Lu (an uppercase letter) with no lowercase mapping.
BoldCapitalA == "U+1D400"

\* c.isalnum() for one character.
IsAlnumChar(c) ==
  c \in Range(LowerLetters) \cup Range(UpperLetters) \cup Range(Digits)
        \cup {BoldCapitalA}

\* s.isalnum(): at least one character and all alphanumeric.
IsAlnum(s) == Len(s) > 0 /\ \A k \in 1..Len(s) : IsAlnumChar(s[k])

\* c.lower() for one character.
LowerChar(c) ==
  IF \E k \in 1..Len(UpperLetters) : UpperLetters[k] = c
  THEN LowerLetters[CHOOSE k \in 1..Len(UpperLetters) : UpperLetters[k] = c]
  ELSE c

\* s.lower()
Lower(s) == [k \in 1..Len(s) |-> LowerChar(s[k])]

\* s.replace(c, "")
Strip(s, c) == LET Keep(x) == x # c IN SelectSeq(s, Keep)

----
\* Rule registry.

\* line 14
REQUIRED_FIELDS ==
  << [section |-> "broker", fields |-> <<"id", "name", "domain", "category">>],
     [section |-> "removal", fields |-> <<"method">>] >>

VALID_CATEGORIES ==
  { <<"p", "e", "o", "p", "l", "e", "-", "s", "e", "a", "r", "c", "h">>,
    <<"b", "a", "c", "k", "g", "r", "o", "u", "n", "d", "-", "c", "h", "e", "c", "k">>,
    <<"d", "a", "t", "a", "-", "a", "g", "g", "r", "e", "g", "a", "t", "o", "r">>,
    <<"m", "a", "r", "k", "e", "t", "i", "n", "g">>,
    <<"s", "o", "c", "i", "a", "l", "-", "m", "e", "d", "i", "a">>,
    <<"g", "o", "v", "e", "r", "n", "m", "e", "n", "t", "-", "r", "e", "c", "o", "r", "d", "s">>,
    <<"f", "i", "n", "a", "n", "c", "i", "a", "l">>,
    <<"o", "t", "h", "e", "r">> }

VALID_REMOVAL_METHODS ==
  { <<"w", "e", "b", "-", "f", "o", "r", "m">>,
    <<"e", "m", "a", "i", "l">>,
    <<"m", "a", "i", "l">>,
    <<"p", "h", "o", "n", "e">>,
    <<"a", "p", "i">>,
    <<"a", "c", "c", "o", "u", "n", "t", "-", "r", "e", "q", "u", "i", "r", "e", "d">> }

VALID_JURISDICTIONS ==
  { <<"c", "c", "p", "a">>, <<"g", "d", "p", "r">>, <<"v", "c", "d", "p", "a">>, <<"c", "p", "a">>, <<"c", "t", "d", "p", "a">>, <<"u", "c", "p", "a">>,
    <<"g", "l", "o", "b", "a", "l">> }

SKIP_FILES == {"schema.toml", "README.md"}

----
\* Diagnostics: the message kind and the value the message echoes.

Diag(kind, arg) == [kind |-> kind, arg |-> arg]
NameArg(path) == Value("name", path, 0, <<>>, <<>>)
NoArg == Value("none", <<>>, 0, <<>>, <<>>)

MissingSection(s) == Diag("Missing required section", NameArg(<<s>>))
MissingField(s, f) == Diag("Missing required field", NameArg(<<s, f>>))
InvalidCategory(x) == Diag("Invalid category", x)
InvalidDomain(x) == Diag("Invalid domain", x)
InvalidId(x) == Diag("Invalid broker ID", x)
IdNotLowercase(x) == Diag("Broker ID must be lowercase", x)
MethodShape == Diag("removal.method must be a string or array of strings", NoArg)
InvalidMethod(x) == Diag("Invalid removal method", x)
InvalidUrl(x) == Diag("removal.url must be a full URL", x)
InvalidJurisdiction(x) == Diag("Invalid jurisdiction", x)
SyntaxDiag == Diag("Invalid TOML syntax", NoArg)

\* Results of calls that may raise.
Ok(errors) == [raised |-> FALSE, errors |-> errors]
Raise(errors) == [raised |-> TRUE, errors |-> errors]

\* Sequential composition: b runs after a unless a raised.
Then(a, b) ==
  IF a.raised THEN a
  ELSE [raised |-> b.raised, errors |-> a.errors \o b.errors]

----
\* Document loader.

NoneV == Value("none", <<>>, 0, <<>>, <<>>)

\* A path argument with the state of the file system at that path:
\*   "missing"      nothing there
\*   "dir"          a directory (exists; open() raises IsADirectoryError)
\*   "undecodable"  bytes that are not UTF-8 (tomllib.load raises
\*                  UnicodeDecodeError, which is not a TOMLDecodeError)
\*   "syntax"       UTF-8 text that is not TOML
\*   "doc"          a TOML document; data is the parsed mapping
\* _load_toml returns [raised, data, errors].
_load_toml(file) ==
  CASE file.kind \in {"dir", "undecodable"} ->
         [raised |-> TRUE, data |-> NoneV, errors |-> <<>>]
    [] file.kind = "syntax" ->
         [raised |-> FALSE, data |-> NoneV, errors |-> <<SyntaxDiag>>]
    [] OTHER ->
         [raised |-> FALSE, data |-> file.data, errors |-> <<>>]

----
\* Required-field phase.

\* Mutant of RequiredInSection: the loop ends at the first missing field.
RequiredFirstOnly(section, content, fields) ==
  LET missing == {k \in 1..Len(fields) : Contains(content, fields[k]) = "no"}
  IN  IF content.t \notin {"dict", "str", "list"} THEN Raise(<<>>)
      ELSE IF missing = {} THEN Ok(<<>>)
      ELSE Ok(<<MissingField(section,
                             fields[CHOOSE k \in missing :
                                       \A n \in missing : k <= n])>>)

RECURSIVE RequiredInSection(_, _, _)
\* lines 67-69: the inner loop over one section's required fields
RequiredInSection(section, content, fields) ==
  IF fields = <<>> THEN Ok(<<>>)
  ELSE LET c == Contains(content, Head(fields))
       IN  IF c = "raise" THEN Raise(<<>>)
           ELSE Then(Ok(IF c = "no"
                        THEN <<MissingField(section, Head(fields))>>
                        ELSE <<>>),
                     RequiredInSection(section, content, Tail(fields)))

RECURSIVE RequiredFrom(_, _)
\* lines 63-69: the outer loop over the (remaining) manifest
RequiredFrom(data, manifest) ==
  IF manifest = <<>> THEN Ok(<<>>)
  ELSE LET m == Head(manifest)
       IN  Then(IF m.section \notin DOMAIN data.dict
                THEN Ok(<<MissingSection(m.section)>>)
                ELSE RequiredInSection(m.section, data.dict[m.section], m.fields),
                RequiredFrom(data, Tail(manifest)))

_validate_required_fields(data) == RequiredFrom(data, REQUIRED_FIELDS)

----
\* Section validators.

\* c[key] after `key in c` was true: only a dict can be indexed by a string.
CanIndex(c) == IsDict(c)

\* lines 77-82
CheckCategory(broker) ==
  LET c == Contains(broker, "category")
  IN  IF c = "raise" \/ (c = "yes" /\ ~CanIndex(broker)) THEN Raise(<<>>)
      ELSE IF c = "no" THEN Ok(<<>>)
      ELSE LET x == broker.dict["category"]
               m == InSet(x, VALID_CATEGORIES)
           IN  IF m = "raise" THEN Raise(<<>>)
               ELSE IF m = "no" THEN Ok(<<InvalidCategory(x)>>)
               ELSE Ok(<<>>)

\* `" " in domain`
HasSpace(x) ==
  CASE x.t = "str" -> IF IsSubstring(<<" ">>, x.str) THEN "yes" ELSE "no"
    [] x.t = "list" ->
         IF \E k \in 1..Len(x.list) : x.list[k] = StrV(<<" ">>) THEN "yes" ELSE "no"
    [] x.t = "dict" -> "no"
    [] OTHER -> "raise"

\* lines 84-90
CheckDomain(broker) ==
  LET c == Contains(broker, "domain")
  IN  IF c = "raise" \/ (c = "yes" /\ ~CanIndex(broker)) THEN Raise(<<>>)
      ELSE IF c = "no" THEN Ok(<<>>)
      ELSE LET domain == broker.dict["domain"]
           IN  IF ~Truthy(domain) THEN Ok(<<InvalidDomain(domain)>>)
               ELSE IF HasSpace(domain) = "raise" THEN Raise(<<>>)
               ELSE IF HasSpace(domain) = "yes"
                    THEN Ok(<<InvalidDomain(domain)>>)
               ELSE IF ~IsStr(domain) THEN Raise(<<>>)
               ELSE IF StartsWith(domain.str, <<"h", "t", "t", "p">>)
                    THEN Ok(<<InvalidDomain(domain)>>)
               ELSE Ok(<<>>)

\* lines 92-98
CheckId(broker) ==
  LET c == Contains(broker, "id")
  IN  IF c = "raise" \/ (c = "yes" /\ ~CanIndex(broker)) THEN Raise(<<>>)
      ELSE IF c = "no" THEN Ok(<<>>)
      ELSE LET broker_id == broker.dict["id"]
           IN  IF ~IsStr(broker_id) THEN Raise(<<>>)
               ELSE Ok((IF ~IsAlnum(Strip(Strip(broker_id.str, "-"), "_"))
                        THEN <<InvalidId(broker_id)>> ELSE <<>>)
                       \o
                       (IF broker_id.str # Lower(broker_id.str)
                        THEN <<IdNotLowercase(broker_id)>> ELSE <<>>))

_validate_broker_section(broker) ==
  Then(CheckCategory(broker), Then(CheckDomain(broker), CheckId(broker)))

RECURSIVE CheckEach(_)
\* lines 115-120: the loop over the resolved methods
CheckEach(methods) ==
  IF methods = <<>> THEN Ok(<<>>)
  ELSE LET m == Head(methods)
           r == InSet(m, VALID_REMOVAL_METHODS)
       IN  IF r = "raise" THEN Raise(<<>>)
           ELSE Then(Ok(IF r = "no" THEN <<InvalidMethod(m)>> ELSE <<>>),
                     CheckEach(Tail(methods)))

\* Mutant of Methods: an array is not accepted.
MethodsScalarOnly(method) == IF IsStr(method) THEN <<method>> ELSE <<>>

\* line 110: [method] for a string, the list itself for a list, else []
Methods(method) ==
  IF IsStr(method) THEN <<method>>
  ELSE IF IsList(method) THEN method.list
  ELSE <<>>

\* lines 107-120
CheckMethod(removal) ==
  LET c == Contains(removal, "method")
  IN  IF c = "raise" \/ (c = "yes" /\ ~CanIndex(removal)) THEN Raise(<<>>)
      ELSE IF c = "no" THEN Ok(<<>>)
      ELSE LET methods == Methods(removal.dict["method"])
           IN  Then(Ok(IF methods = <<>> THEN <<MethodShape>> ELSE <<>>),
                    CheckEach(methods))

\* lines 122-126
CheckUrl(removal) ==
  LET c == Contains(removal, "url")
  IN  IF c = "raise" \/ (c = "yes" /\ ~CanIndex(removal)) THEN Raise(<<>>)
      ELSE IF c = "no" THEN Ok(<<>>)
      ELSE LET url == removal.dict["url"]
           IN  IF ~IsStr(url) THEN Raise(<<>>)
               ELSE IF StartsWith(url.str, <<"h", "t", "t", "p", ":", "/", "/">>)
                       \/ StartsWith(url.str, <<"h", "t", "t", "p", "s", ":", "/", "/">>)
                    THEN Ok(<<>>)
               ELSE Ok(<<InvalidUrl(url)>>)

_validate_removal_section(removal) ==
  Then(CheckMethod(removal), CheckUrl(removal))

RECURSIVE KeysOf(_)
\* the keys of a dict, as the strings a `for` over it yields
KeysOf(K) ==
  IF K = {} THEN <<>>
  ELSE LET k == CHOOSE x \in K : TRUE
       IN  <<StrV(KeyChars[k])>> \o KeysOf(K \ {k})

\* What `for jurisdiction in jurisdictions` yields: the elements of a list,
\* the keys of a dict, the characters of a string.
Items(x) ==
  CASE x.t = "list" -> x.list
    [] x.t = "dict" -> KeysOf(DOMAIN x.dict)
    [] x.t = "str" -> [k \in 1..Len(x.str) |-> StrV(<<x.str[k]>>)]
    [] OTHER -> <<>>

RECURSIVE CheckLaws(_)
\* lines 134-140
CheckLaws(items) ==
  IF items = <<>> THEN Ok(<<>>)
  ELSE LET j == Head(items)
       IN  IF IsDict(j) /\ "law" \in DOMAIN j.dict
           THEN LET r == InSet(j.dict["law"], VALID_JURISDICTIONS)
                IN  IF r = "raise" THEN Raise(<<>>)
                    ELSE Then(Ok(IF r = "no"
                                 THEN <<InvalidJurisdiction(j.dict["law"])>>
                                 ELSE <<>>),
                              CheckLaws(Tail(items)))
           ELSE CheckLaws(Tail(items))

_validate_jurisdictions(jurisdictions) ==
  IF jurisdictions.t = "int" THEN Raise(<<>>)
  ELSE CheckLaws(Items(jurisdictions))

----
\* Orchestrator.

\* lines 153-163: the validator of a section runs if the section is present
IfPresent(data, section, r) ==
  IF section \in DOMAIN data.dict THEN r ELSE Ok(<<>>)

\* lines 150-165, for a truthy data
ValidateData(data) ==
  Then(_validate_required_fields(data),
  Then(IfPresent(data, "broker", _validate_broker_section(data.dict["broker"])),
  Then(IfPresent(data, "removal", _validate_removal_section(data.dict["removal"])),
       IfPresent(data, "jurisdictions",
                 _validate_jurisdictions(data.dict["jurisdictions"])))))

\* Returns [raised, errors]; errors is the returned list when not raised.
validate_broker_toml(file) ==
  LET l == _load_toml(file)
  IN  IF l.raised THEN Raise(<<>>)
      ELSE IF l.data = NoneV \/ ~Truthy(l.data) THEN Ok(l.errors)
      ELSE LET r == ValidateData(l.data)
           IN  IF r.raised THEN Raise(l.errors \o r.errors)
               ELSE Ok(l.errors \o r.errors)

----
\* Batch runner.

\* Path(filepath).name: the last component of the path.
Name(path) == path[Len(path)]

\* line 186: path.exists()
Exists(file) == file.kind # "missing"

Status(k, status, errors) == [arg |-> k, status |-> status, errors |-> errors]

\* lines 174-176: no arguments, usage message, return 1
Usage ==
  /\ pc = "start"
  /\ Len(argv) = 0
  /\ pc' = "exit"
  /\ exitCode' = 1
  /\ UNCHANGED <<argv, i, all_valid, out>>

\* line 178
Start ==
  /\ pc = "start"
  /\ Len(argv) > 0
  /\ all_valid' = TRUE
  /\ pc' = "loop"
  /\ UNCHANGED <<argv, i, out, exitCode>>

\* lines 182-184
Skip ==
  /\ pc = "loop"
  /\ i <= Len(argv)
  /\ Name(argv[i].path) \in SKIP_FILES
  /\ out' = Append(out, Status(i, "SKIP", <<>>))
  /\ i' = i + 1
  /\ UNCHANGED <<argv, all_valid, pc, exitCode>>

\* lines 185-189
NotFound ==
  /\ pc = "loop"
  /\ i <= Len(argv)
  /\ Name(argv[i].path) \notin SKIP_FILES
  /\ ~Exists(argv[i])
  /\ out' = Append(out, Status(i, "NOTFOUND", <<>>))
  /\ all_valid' = FALSE
  /\ i' = i + 1
  /\ UNCHANGED <<argv, pc, exitCode>>

\* Mutant of ReportErrors: the aggregate flag is left as it was.
ReportErrorsKeepsFlag ==
  /\ pc = "loop"
  /\ i <= Len(argv)
  /\ Name(argv[i].path) \notin SKIP_FILES
  /\ Exists(argv[i])
  /\ LET r == validate_broker_toml(argv[i])
     IN  /\ ~r.raised
         /\ r.errors # <<>>
         /\ out' = Append(out, Status(i, "ERROR", r.errors))
  /\ i' = i + 1
  /\ UNCHANGED <<argv, all_valid, pc, exitCode>>

\* lines 191-197: validate_broker_toml returned a non-empty list
ReportErrors ==
  /\ pc = "loop"
  /\ i <= Len(argv)
  /\ Name(argv[i].path) \notin SKIP_FILES
  /\ Exists(argv[i])
  /\ LET r == validate_broker_toml(argv[i])
     IN  /\ ~r.raised
         /\ r.errors # <<>>
         /\ out' = Append(out, Status(i, "ERROR", r.errors))
  /\ all_valid' = FALSE
  /\ i' = i + 1
  /\ UNCHANGED <<argv, pc, exitCode>>

\* lines 191-199: validate_broker_toml returned an empty list
ReportOK ==
  /\ pc = "loop"
  /\ i <= Len(argv)
  /\ Name(argv[i].path) \notin SKIP_FILES
  /\ Exists(argv[i])
  /\ LET r == validate_broker_toml(argv[i])
     IN  /\ ~r.raised
         /\ r.errors = <<>>
  /\ out' = Append(out, Status(i, "OK", <<>>))
  /\ i' = i + 1
  /\ UNCHANGED <<argv, all_valid, pc, exitCode>>

\* line 191 raising: nothing in main catches it, the traceback goes to
\* stderr and the interpreter exits with status 1.
Uncaught ==
  /\ pc = "loop"
  /\ i <= Len(argv)
  /\ Name(argv[i].path) \notin SKIP_FILES
  /\ Exists(argv[i])
  /\ validate_broker_toml(argv[i]).raised
  /\ pc' = "raised"
  /\ exitCode' = 1
  /\ UNCHANGED <<argv, i, all_valid, out>>

\* line 201 and sys.exit(main())
Return ==
  /\ pc = "loop"
  /\ i > Len(argv)
  /\ pc' = "exit"
  /\ exitCode' = (IF all_valid THEN 0 ELSE 1)
  /\ UNCHANGED <<argv, i, all_valid, out>>

Next ==
  \/ Usage
  \/ Start
  \/ Skip
  \/ NotFound
  \/ ReportErrors
  \/ ReportOK
  \/ Uncaught
  \/ Return

----
\* Inputs.

AbsentV == Value("absent", <<>>, 0, <<>>, <<>>)

\* The dict holding the keys of f whose value is not AbsentV.
MkDict(f) == DictV([k \in {x \in DOMAIN f : f[x] # AbsentV} |-> f[k]])

BoundedSeq(S, n) == UNION {[1..k -> S] : k \in 0..n}

IdValues ==
  { StrV(<<"s", "p", "o", "k", "e", "o">>), StrV(<<"S", "p", "o", "k", "e", "o", "-", "1">>), StrV(<<"s", "p", "o", "k", "e", "o", "!">>),
    StrV(<<"S", "p", "o", "k", "e", "o", "!">>), StrV(<<"a", "_", "b", "-", "1">>), StrV(<<"-", "_">>), StrV(<<>>),
    StrV(<<BoldCapitalA>>), IntV(5) }

DomainValues ==
  { StrV(<<"s", "p", "o", "k", "e", "o", ".", "c", "o", "m">>), StrV(<<"h", "t", "t", "p", "s", ":", "/", "/", "s", "p", "o", "k", "e", "o", ".", "c", "o", "m">>), StrV(<<"a", " ", "b">>),
    StrV(<<>>), IntV(0), IntV(5) }

CategoryValues ==
  { StrV(<<"o", "t", "h", "e", "r">>), StrV(<<"b", "o", "g", "u", "s">>), IntV(5), ListV(<<>>) }

NameValues == { StrV(<<"S", "p", "o", "k", "e", "o">>) }

BrokerValues ==
  { MkDict([id |-> a, name |-> b, domain |-> c, category |-> d]) :
      a \in IdValues \cup {AbsentV}, b \in NameValues \cup {AbsentV},
      c \in DomainValues \cup {AbsentV}, d \in CategoryValues \cup {AbsentV} }
    \cup { StrV(<<"x">>), StrV(<<"m", "y", " ", "i", "d">>), IntV(5), ListV(<<StrV(<<"i", "d">>)>>) }

MethodElems ==
  { StrV(<<"e", "m", "a", "i", "l">>), StrV(<<"a", "p", "i">>), StrV(<<"f", "a", "x">>), IntV(5), ListV(<<>>) }

MethodValues ==
  { StrV(<<"e", "m", "a", "i", "l">>), StrV(<<"f", "a", "x">>), StrV(<<>>), IntV(5), DictV(<<>>) }
    \cup { ListV(s) : s \in BoundedSeq(MethodElems, MaxMethods) }

UrlValues ==
  { StrV(<<"h", "t", "t", "p", "s", ":", "/", "/", "x", ".", "i", "o", "/", "o", "p", "t", "o", "u", "t">>), StrV(<<"h", "t", "t", "p", ":", "/", "/", "x", ".", "i", "o">>),
    StrV(<<"f", "t", "p", ":", "/", "/", "x", ".", "i", "o">>), IntV(5) }

RemovalValues ==
  { MkDict([method |-> m, url |-> u]) :
      m \in MethodValues \cup {AbsentV}, u \in UrlValues \cup {AbsentV} }
    \cup { StrV(<<"x">>), IntV(5) }

JurElems ==
  { DictV([law |-> StrV(<<"g", "d", "p", "r">>)]), DictV([law |-> StrV(<<"x", "x">>)]),
    DictV([law |-> IntV(5)]), DictV([law |-> ListV(<<>>)]),
    DictV([notes |-> StrV(<<"x", "x">>)]), StrV(<<"g", "d", "p", "r">>), IntV(1) }

JurValues ==
  { ListV(s) : s \in BoundedSeq(JurElems, MaxJur) }
    \cup { DictV([law |-> StrV(<<"x", "x">>)]), StrV(<<"g", "d", "p", "r">>), IntV(5) }

BrokerOK ==
  DictV([id |-> StrV(<<"s", "p", "o", "k", "e", "o">>), name |-> StrV(<<"S", "p", "o", "k", "e", "o">>),
         domain |-> StrV(<<"s", "p", "o", "k", "e", "o", ".", "c", "o", "m">>), category |-> StrV(<<"o", "t", "h", "e", "r">>)])
BrokerBad ==
  DictV([id |-> StrV(<<"S", "p", "o", "k", "e", "o", "!">>), name |-> StrV(<<"S", "p", "o", "k", "e", "o">>),
         domain |-> StrV(<<"s", "p", "o", "k", "e", "o", ".", "c", "o", "m">>), category |-> StrV(<<"b", "o", "g", "u", "s">>)])
RemovalOK == DictV([method |-> StrV(<<"e", "m", "a", "i", "l">>)])
RemovalBad ==
  DictV([method |-> ListV(<<StrV(<<"f", "a", "x">>)>>), url |-> StrV(<<"f", "t", "p", ":", "/", "/", "x", ".", "i", "o">>)])
JurBad == ListV(<<DictV([law |-> StrV(<<"x", "x">>)])>>)

Record(b, r, j, m) ==
  MkDict([broker |-> b, removal |-> r, jurisdictions |-> j, meta |-> m])

\* The parsed documents: each section ranges over all its values while the
\* other sections range over absent, clean and faulty.
Records ==
  { Record(b, r, j, AbsentV) :
      b \in BrokerValues \cup {AbsentV},
      r \in {AbsentV, RemovalOK, RemovalBad}, j \in {AbsentV, JurBad} }
  \cup
  { Record(b, r, j, m) :
      b \in {AbsentV, BrokerOK, BrokerBad},
      r \in RemovalValues \cup {AbsentV},
      j \in {AbsentV, JurBad}, m \in {AbsentV, IntV(1)} }
  \cup
  { Record(b, r, j, m) :
      b \in {AbsentV, BrokerOK, BrokerBad},
      r \in {AbsentV, RemovalOK, RemovalBad},
      j \in JurValues, m \in {AbsentV, IntV(1)} }

File(path, kind, data) == [path |-> path, kind |-> kind, data |-> data]

\* The files of the batch runs; each path names one file.
BatchFiles ==
  { File(<<"schema.toml">>, "syntax", NoneV),
    File(<<"brokers", "schema.toml">>, "missing", NoneV),
    File(<<"README.md">>, "doc", Record(BrokerBad, AbsentV, AbsentV, AbsentV)),
    File(<<"schema.toml", "gone.toml">>, "missing", NoneV),
    File(<<"brokers">>, "dir", NoneV),
    File(<<"latin1.toml">>, "undecodable", NoneV),
    File(<<"broken.toml">>, "syntax", NoneV),
    File(<<"empty.toml">>, "doc", DictV(<<>>)),
    File(<<"spokeo.toml">>, "doc", Record(BrokerOK, RemovalOK, AbsentV, AbsentV)),
    File(<<"bad.toml">>, "doc", Record(BrokerBad, RemovalBad, JurBad, AbsentV)),
    File(<<"partial.toml">>, "doc", Record(AbsentV, RemovalOK, AbsentV, AbsentV)),
    File(<<"idint.toml">>, "doc",
         Record(MkDict([id |-> IntV(5)]), RemovalOK, AbsentV, AbsentV)) }

RecordFiles == { File(<<"brokers", "broker.toml">>, "doc", d) : d \in Records }

Init ==
  /\ argv \in BoundedSeq(BatchFiles, MaxArgs) \cup { <<f>> : f \in RecordFiles }
  /\ i = 1
  /\ all_valid = TRUE
  /\ out = <<>>
  /\ pc = "start"
  /\ exitCode = -1

Spec == Init /\ [][Next]_vars

----
\* Vocabulary of the properties.

\* The arguments main has dealt with: those before i, and the one at which
\* an exception ended the run.
Processed ==
  {k \in 1..Len(argv) : k < i \/ (k = i /\ pc = "raised")}

\* The processed arguments whose file was loaded as a document.
Loaded ==
  {k \in Processed : /\ Name(argv[k].path) \notin {"schema.toml", "README.md"}
                     /\ argv[k].kind = "doc"}

\* The statuses printed for loaded documents: validate_broker_toml returned.
Returned == {k \in DOMAIN out : out[k].arg \in Loaded}

DataOf(k) == argv[out[k].arg].data

Count(s, x) == Cardinality({k \in DOMAIN s : s[k] = x})

OfKind(s, kind) == LET Is(d) == d.kind = kind IN SelectSeq(s, Is)

\* The removal validator was called on a mapping: the record is not empty
\* and nothing before the call raised.
RemovalCalled(d) ==
  /\ "removal" \in DOMAIN d.dict
  /\ IsDict(d.dict["removal"])
  /\ ~_validate_required_fields(d).raised
  /\ ~IfPresent(d, "broker", _validate_broker_section(d.dict["broker"])).raised

\* The ID check of the identity validator was reached on a mapping with an id.
IdChecked(d) ==
  /\ "broker" \in DOMAIN d.dict
  /\ IsDict(d.dict["broker"])
  /\ "id" \in DOMAIN d.dict["broker"].dict
  /\ ~_validate_required_fields(d).raised
  /\ ~CheckCategory(d.dict["broker"]).raised
  /\ ~CheckDomain(d.dict["broker"]).raised

----
\* C1. main exits 0 exactly when the argument list is not empty and every
\* argument whose base name is not schema.toml or README.md exists and
\* validates with an empty diagnostic list; otherwise the exit status is 1.
\* Skipped arguments, whatever is at their path, do not enter the condition.

\* The file exists and validate_broker_toml returns an empty list for it.
Clean(file) ==
  /\ file.kind # "missing"
  /\ ~validate_broker_toml(file).raised
  /\ validate_broker_toml(file).errors = <<>>

\* Argument k is not named like a skipped file.
Counted(k) == Name(argv[k].path) \notin {"schema.toml", "README.md"}

C1_ExitCode ==
  /\ pc \in {"exit", "raised"} => exitCode \in {0, 1}
  /\ pc \in {"exit", "raised"} =>
       (exitCode = 0 <=>
          /\ Len(argv) > 0
          /\ \A k \in 1..Len(argv) : Counted(k) => Clean(argv[k]))
  /\ pc \notin {"exit", "raised"} => exitCode = -1

\* C1 witness. A batch with a skipped argument that is not a valid record (missing or
\* unparsable) and a clean record has exited 0.
C1_Witness ==
  /\ pc = "exit"
  /\ exitCode = 0
  /\ \E k \in 1..Len(argv) : ~Counted(k) /\ ~Clean(argv[k])
  /\ \E k \in 1..Len(argv) : Counted(k)

\* C2. Every argument is processed exactly once, in order, with exactly one
\* status, whatever the earlier arguments were: when main has ended on a
\* non-empty argument list, the k-th status printed is that of argument k.
C2_EveryArgumentReported ==
  (pc \in {"exit", "raised"} /\ Len(argv) > 0) =>
     /\ Len(out) = Len(argv)
     /\ \A k \in 1..Len(out) :
          /\ out[k].arg = k
          /\ out[k].status \in {"SKIP", "NOTFOUND", "OK", "ERROR"}

\* C3. A parsed record lacking a required section is never reported OK.
C3_MissingSectionNeverAccepted ==
  \A k \in Returned :
     out[k].status = "OK" => {"broker", "removal"} \subseteq DOMAIN DataOf(k).dict

\* Field f of section s is missing from record d.
FieldMissing(d, s, f) ==
  \/ s \notin DOMAIN d.dict
  \/ ~IsDict(d.dict[s])
  \/ f \notin DOMAIN d.dict[s].dict

IdChars == Range(LowerLetters) \cup Range(Digits) \cup {"-", "_"}

\* A string of the removal-method enumeration.
ValidMethod(x) == IsStr(x) /\ x.str \in VALID_REMOVAL_METHODS

\* A valid minimal record: both required sections with all required fields,
\* enumerated values inside their enumerations (method a string or an array
\* of one or more strings), well-formed domain, id and url.
ValidMinimal(d) ==
  /\ {"broker", "removal"} \subseteq DOMAIN d.dict
  /\ IsDict(d.dict["broker"])
  /\ IsDict(d.dict["removal"])
  /\ LET b == d.dict["broker"].dict
         r == d.dict["removal"].dict
     IN  /\ {"id", "name", "domain", "category"} \subseteq DOMAIN b
         /\ IsStr(b["category"]) /\ b["category"].str \in VALID_CATEGORIES
         /\ IsStr(b["domain"])
         /\ Len(b["domain"].str) > 0
         /\ " " \notin Range(b["domain"].str)
         /\ ~StartsWith(b["domain"].str, <<"h", "t", "t", "p">>)
         /\ IsStr(b["id"])
         /\ Range(b["id"].str) \subseteq IdChars
         /\ Range(b["id"].str) \cap (Range(LowerLetters) \cup Range(Digits)) # {}
         /\ "method" \in DOMAIN r
         /\ \/ ValidMethod(r["method"])
            \/ /\ IsList(r["method"])
               /\ Len(r["method"].list) > 0
               /\ \A n \in 1..Len(r["method"].list) : ValidMethod(r["method"].list[n])
         /\ "url" \in DOMAIN r =>
              /\ IsStr(r["url"])
              /\ \/ StartsWith(r["url"].str, <<"h", "t", "t", "p", ":", "/", "/">>)
                 \/ StartsWith(r["url"].str, <<"h", "t", "t", "p", "s", ":", "/", "/">>)
  /\ "jurisdictions" \in DOMAIN d.dict =>
       /\ IsList(d.dict["jurisdictions"])
       /\ \A n \in 1..Len(d.dict["jurisdictions"].list) :
            LET j == d.dict["jurisdictions"].list[n]
            IN  (IsDict(j) /\ "law" \in DOMAIN j.dict) =>
                   (IsStr(j.dict["law"]) /\ j.dict["law"].str \in VALID_JURISDICTIONS)

\* C5. A valid minimal record, with or without unknown top-level sections
\* and jurisdiction entries that have no `law`, is reported OK.
C5_ValidMinimalAccepted ==
  \A k \in Loaded :
     ValidMinimal(argv[k].data) =>
        \E n \in DOMAIN out :
           out[n].arg = k /\ out[n].status = "OK" /\ out[n].errors = <<>>

\* C5 witness. A valid record with an unknown section, an array as method and a
\* jurisdiction entry without `law` has been reported OK.
C5_Witness ==
  \E n \in Returned :
     LET d == DataOf(n)
     IN  /\ ValidMinimal(d)
         /\ "meta" \in DOMAIN d.dict
         /\ "jurisdictions" \in DOMAIN d.dict
         /\ \E e \in Range(d.dict["jurisdictions"].list) :
               IsDict(e) /\ "law" \notin DOMAIN e.dict
         /\ out[n].status = "OK"

\* C6. The list returned for a parsed record is the required-field
\* diagnostics, then those of the broker, removal and jurisdictions
\* validators, each for a section that is present.
C6_PhaseOrder ==
  \A k \in Returned :
     LET d == DataOf(k)
     IN  out[k].errors =
           _validate_required_fields(d).errors
           \o IfPresent(d, "broker",
                        _validate_broker_section(d.dict["broker"])).errors
           \o IfPresent(d, "removal",
                        _validate_removal_section(d.dict["removal"])).errors
           \o IfPresent(d, "jurisdictions",
                        _validate_jurisdictions(d.dict["jurisdictions"])).errors

\* The entries of an array that are not in the removal-method enumeration.
InvalidEntries(method) ==
  LET Bad(m) == ~ValidMethod(m)
  IN  SelectSeq(method.list, Bad)

\* C7. For an array removal.method the removal validator emits one
\* invalid-removal-method diagnostic per entry outside the enumeration, in
\* array order, and none for the entries inside it.
C7_OnePerInvalidEntry ==
  \A k \in Loaded :
     LET d == argv[k].data
     IN  (/\ RemovalCalled(d)
          /\ "method" \in DOMAIN d.dict["removal"].dict
          /\ IsList(d.dict["removal"].dict["method"])) =>
            OfKind(_validate_removal_section(d.dict["removal"]).errors,
                   "Invalid removal method")
              = [n \in 1..Len(InvalidEntries(d.dict["removal"].dict["method"])) |->
                   InvalidMethod(InvalidEntries(d.dict["removal"].dict["method"])[n])]

\* The uppercase characters of the alphabet.
UpperChars == Range(UpperLetters) \cup {BoldCapitalA}

\* C8. For an id the identity validator emits, without raising, one
\* diagnostic if the id stripped of hyphens and underscores is not
\* alphanumeric and a separate one if the id contains an uppercase character.
C8_IdDiagnostics ==
  \A k \in Loaded :
     LET d == argv[k].data
     IN  IdChecked(d) =>
           LET x == d.dict["broker"].dict["id"]
               r == CheckId(d.dict["broker"])
           IN  /\ ~r.raised
               /\ IsStr(x)
               /\ r.errors =
                    (IF ~IsAlnum(Strip(Strip(x.str, "-"), "_"))
                     THEN <<InvalidId(x)>> ELSE <<>>)
                    \o (IF Range(x.str) \cap UpperChars # {}
                        THEN <<IdNotLowercase(x)>> ELSE <<>>)

\* A string or an array of strings.
StringOrStrings(x) ==
  \/ IsStr(x)
  \/ IsList(x) /\ \A n \in 1..Len(x.list) : IsStr(x.list[n])

\* C9. The shape diagnostic for removal.method is emitted exactly when the
\* value is neither a string nor an array of strings, and then no
\* invalid-removal-method diagnostic is emitted.
C9_ShapeDiagnostic ==
  \A k \in Loaded :
     LET d == argv[k].data
     IN  (RemovalCalled(d) /\ "method" \in DOMAIN d.dict["removal"].dict) =>
           LET e == CheckMethod(d.dict["removal"]).errors
           IN  /\ Count(e, MethodShape) > 0
                    <=> ~StringOrStrings(d.dict["removal"].dict["method"])
               /\ Count(e, MethodShape) > 0 =>
                    OfKind(e, "Invalid removal method") = <<>>

\* C10. validate_broker_toml returns a list for every parsed record: main
\* is never ended by an exception raised while validating a document.
C10_NeverRaises ==
  \A k \in Loaded : ~validate_broker_toml(argv[k]).raised

====
